---- MODULE Spec2Model ----
(***************************************************************************)
(* Model of the channel forwarder of src/main.py: one process invocation   *)
(* loads the set of forwarded message keys, makes one polling pass over    *)
(* the configured source channels, forwards every new message to the       *)
(* target channel (text rewritten by the Flowise endpoint), saves the set  *)
(* and disconnects.  An external scheduler starts the next invocation.     *)
(*                                                                         *)
(* Strings are sequences of one-character strings, so that strip() and     *)
(* the f-string that builds a message key are computed, not assumed.       *)
(* Python's None is the empty option <<>>, a value v is <<v>>.             *)
(***************************************************************************)
EXTENDS Integers, Sequences, FiniteSets, TLC

(* ------------------------------ bounds --------------------------------- *)

\* Largest number of messages a source channel holds when it is fetched.
MaxItems == 3

\* Number of process invocations (scheduled runs) that are followed.
MaxRuns == 2

(* --------------------------- configuration ----------------------------- *)

\* bot_client.get_messages(channel, limit=50)
limit == 50

\* Two source channels; the second name extends the first by "_1", the
\* hardest case for the "<channel>_<id>" key format.
ChanA == <<"a">>
ChanB == <<"a", "_", "1">>

\* Values of SOURCE_CHANNELS, the comma separated list of the environment:
\* two channels, or one channel named twice.
ChannelLists == {<<ChanA, ChanB>>, <<ChanA, ChanA>>}

(* ------------------------------ strings -------------------------------- *)

IsSpace(c) == c = " "

RECURSIVE LStrip(_)
LStrip(s) == IF s # <<>> /\ IsSpace(Head(s)) THEN LStrip(Tail(s)) ELSE s

RECURSIVE RStrip(_)
RStrip(s) ==
    IF s # <<>> /\ IsSpace(s[Len(s)]) THEN RStrip(SubSeq(s, 1, Len(s) - 1)) ELSE s

\* str.strip()
Strip(s) == RStrip(LStrip(s))

DigitChar == <<"0", "1", "2", "3", "4", "5", "6", "7", "8", "9">>

\* str(message.id) for a non-negative message id
RECURSIVE Digits(_)
Digits(n) ==
    IF n < 10 THEN <<DigitChar[n + 1]>>
    ELSE Digits(n \div 10) \o <<DigitChar[(n % 10) + 1]>>

\* msg_key = f"{channel_name}_{message.id}"
MsgKey(channel_name, id) == channel_name \o <<"_">> \o Digits(id)

Min(x, y) == IF x <= y THEN x ELSE y

Range(s) == {s[i] : i \in DOMAIN s}

RECURSIVE Reversed(_)
Reversed(s) == IF s = <<>> THEN <<>> ELSE Reversed(Tail(s)) \o <<Head(s)>>

\* list(seen): the elements of a set in some order, each once
RECURSIVE SetToList(_)
SetToList(S) ==
    IF S = {} THEN <<>>
    ELSE LET x == CHOOSE y \in S : TRUE IN <<x>> \o SetToList(S \ {x})

(* ---------------------------- state store ------------------------------ *)

\* Content of SEEN_FILE: absent, not parseable as JSON, or the JSON object
\* {"message_ids": [...]}.
FileMissing == [kind |-> "missing", ids |-> <<>>]
FileCorrupt == [kind |-> "corrupt", ids |-> <<>>]
FileOf(list) == [kind |-> "ok", ids |-> list]

\* Files that parse as JSON and are not the object save_seen_messages writes:
\* a JSON array (data.get raises AttributeError), an object without the key
\* 'message_ids' (get yields the default []), an object whose 'message_ids'
\* is null (set(None) raises TypeError), is a list that holds a list
\* (unhashable, TypeError), or is the JSON string s (ids holds its characters).
FileJsonArray == [kind |-> "array", ids |-> <<>>]
FileNoKey == [kind |-> "object", ids |-> <<>>]
FileIdsNull == [kind |-> "null", ids |-> <<>>]
FileIdsNested == [kind |-> "nested", ids |-> <<>>]
FileIdsString(s) == [kind |-> "string", ids |-> s]

\* load_seen_messages(): set(data.get('message_ids', [])), or set() when the
\* file does not exist or reading it raises.  set() of a str is the set of
\* its characters.
load_seen_messages(f) ==
    IF f.kind = "ok" THEN Range(f.ids)
    ELSE IF f.kind = "string" THEN {<<f.ids[i]>> : i \in DOMAIN f.ids}
    ELSE {}

\* What open(SEEN_FILE, 'w') / json.dump can do.  "open_fails": open raises,
\* the file is untouched.  "write_fails": the file was truncated by open and
\* the dump raised, what is left does not parse.  Both are logged only.
SaveOutcomes == {"ok", "open_fails", "write_fails"}

\* The save that leaves one key out of the list it writes.
save_seen_messages_DropsKey(f, seen, outcome) ==
    CASE outcome = "ok"          -> FileOf(IF seen = {} THEN <<>> ELSE Tail(SetToList(seen)))
      [] outcome = "open_fails"  -> f
      [] outcome = "write_fails" -> FileCorrupt

\* save_seen_messages(seen)
save_seen_messages(f, seen, outcome) ==
    CASE outcome = "ok"          -> FileOf(SetToList(seen))
      [] outcome = "open_fails"  -> f
      [] outcome = "write_fails" -> FileCorrupt

(* ------------------------------ messages ------------------------------- *)

\* Texts a source message or a media caption can carry ("" also stands for
\* None: the code reads both through `or ""`).
Texts == {<<>>, <<" ">>, <<" ", "a">>}

\* document.mime_type
VideoMp4 == <<"v", "i", "d", "e", "o", "/", "m", "p", "4">>
ImageGif == <<"i", "m", "a", "g", "e", "/", "g", "i", "f">>
AudioMpeg == <<"a", "u", "d", "i", "o", "/", "m", "p", "e", "g">>
\* "application/x-video": the sender of a document chooses its mime type
AppXVideo ==
    <<"a", "p", "p", "l", "i", "c", "a", "t", "i", "o", "n", "/", "x", "-",
      "v", "i", "d", "e", "o">>
MimeTypes == {VideoMp4, ImageGif, AudioMpeg}

\* Python's `sub in s` on strings
Contains(s, sub) ==
    \E i \in 0..(Len(s) - Len(sub)) : SubSeq(s, i + 1, i + Len(sub)) = sub

\* What a fetched message can look like.  media is "none" (None), "photo"
\* (MessageMediaPhoto), "document" (MessageMediaDocument) or "other" (poll,
\* geo, ...).  caption is <<>> when message.media has no attribute 'caption'
\* and <<c>> when it has one with value c; mime is <<>> when media.document
\* is None and <<m>> for a document of mime type m.
Shapes ==
    {[text |-> t, media |-> k, caption |-> <<>>, mime |-> <<>>] :
        t \in Texts, k \in {"none", "photo", "other"}}
    \cup
    {[text |-> <<" ", "a">>, media |-> "photo", caption |-> <<<<>>>>, mime |-> <<>>],
     [text |-> <<>>, media |-> "photo", caption |-> <<<<" ", "a">>>>, mime |-> <<>>]}
    \cup
    {[text |-> t, media |-> "document", caption |-> <<>>, mime |-> m] :
        t \in Texts, m \in {<<>>} \cup {<<x>> : x \in MimeTypes}}
    \cup
    {[text |-> <<>>, media |-> "document", caption |-> <<>>, mime |-> <<AppXVideo>>]}

\* The message of identifier id and shape s; near says whether it was posted
\* in the source channel within the debounce window (2 s) after the message
\* before it (message.date, which the code never reads).
Message(id, s, near) ==
    [id |-> id, text |-> s.text, media |-> s.media, caption |-> s.caption,
     mime |-> s.mime, near |-> near]

(* ---------------------------- AI rewriting ----------------------------- *)

\* The exchange with FLOWISE_URL: "error" is every way the try block raises
\* (timeout, transport error, raise_for_status, a body that is not a JSON
\* object); otherwise result is `data.get("text") or data.get("data") or ""`.
AiResponses ==
    {[kind |-> "error", result |-> <<>>]}
    \cup {[kind |-> "json", result |-> r] : r \in {<<>>, <<" ">>, <<"r", " ">>}}

\* call_ai_bot(text): None, or the stripped result
call_ai_bot(text, resp) ==
    IF text = <<>> \/ Strip(text) = <<>> THEN <<>>
    ELSE IF resp.kind = "error" THEN <<>>
    ELSE IF resp.result # <<>> THEN <<Strip(resp.result)>>
    ELSE <<>>

\* Python truthiness of an optional string: neither None nor ""
Truthy(opt) == opt # <<>> /\ opt[1] # <<>>

(* --------------------------- forward logic ----------------------------- *)

\* How a call of bot_client.send_message / send_file ends: it returns, or it
\* raises FloodWaitError, ChatWriteForbiddenError or another exception.
SendOutcomes == {"ok", "RateLimited", "PermissionDenied", "Error"}

Sent(kind, text, result) == [kind |-> kind, text |-> text, result |-> result]

\* The check of the processed set left out.
AlreadyForwarded_Never(msg_key, seen) == FALSE

\* `if msg_key in SEEN_MESSAGES`
AlreadyForwarded(msg_key, seen) == msg_key \in seen

\* text = message.text or ""; the caption attribute of the media, when there
\* is one, replaces it
GetText(m) ==
    IF m.media # "none" /\ m.caption # <<>> THEN m.caption[1] ELSE m.text

\* The rewrite without `if not rewritten_text: rewritten_text = text`.
Rewrite_NoFallback(text, resp) ==
    IF text = <<>> THEN <<>> ELSE call_ai_bot(text, resp)

\* rewritten_text: None for an empty text, else the AI result, else the text
Rewrite(text, resp) ==
    IF text = <<>> THEN <<>>
    ELSE IF Truthy(call_ai_bot(text, resp)) THEN call_ai_bot(text, resp)
    ELSE <<text>>

\* The media post with the key recorded before the send is awaited.
SendMedia_RecordFirst(msg_key, seen, rewritten_text, o1, o2, branch) ==
    IF o1 = "ok" THEN
        [seen |-> seen \cup {msg_key}, ret |-> TRUE, branch |-> branch,
         sends |-> <<Sent("file", rewritten_text, o1)>>]
    ELSE IF Truthy(rewritten_text) THEN
        [seen |-> seen \cup {msg_key},
         ret |-> o2 = "ok", branch |-> branch,
         sends |-> <<Sent("file", rewritten_text, o1),
                     Sent("message", rewritten_text, o2)>>]
    ELSE
        [seen |-> seen \cup {msg_key}, ret |-> FALSE, branch |-> branch,
         sends |-> <<Sent("file", rewritten_text, o1)>>]

\* The try/except around send_file that CASE 2 and both branches of CASE 3
\* repeat: the media post, and on any exception the text post when there is
\* a rewritten text.  An exception of the text post reaches the outer
\* handler of process_message.
SendMedia(msg_key, seen, rewritten_text, o1, o2, branch) ==
    IF o1 = "ok" THEN
        [seen |-> seen \cup {msg_key}, ret |-> TRUE, branch |-> branch,
         sends |-> <<Sent("file", rewritten_text, o1)>>]
    ELSE IF Truthy(rewritten_text) THEN
        [seen |-> IF o2 = "ok" THEN seen \cup {msg_key} ELSE seen,
         ret |-> o2 = "ok", branch |-> branch,
         sends |-> <<Sent("file", rewritten_text, o1),
                     Sent("message", rewritten_text, o2)>>]
    ELSE
        [seen |-> seen, ret |-> FALSE, branch |-> branch,
         sends |-> <<Sent("file", rewritten_text, o1)>>]

\* `"video" in mime_type`
IsVideo(mime_type) == Contains(mime_type, <<"v", "i", "d", "e", "o">>)

\* `"image/gif" in mime_type or "video/mp4" in mime_type`
IsGif(mime_type) == Contains(mime_type, ImageGif) \/ Contains(mime_type, VideoMp4)

Skip(seen, branch) == [seen |-> seen, ret |-> FALSE, branch |-> branch, sends |-> <<>>]

\* process_message(message, channel_name) on the processed set `seen`, with
\* the answers of the collaborators: resp of the rewrite endpoint, o1 of the
\* first send, o2 of the fallback text post.  Yields the new processed set,
\* the return value, the branch taken and the sends made, in order.
process_message(m, channel_name, seen, resp, o1, o2) ==
    LET msg_key == MsgKey(channel_name, m.id)
        text == Strip(GetText(m))
        rewritten_text == Rewrite(text, resp)
        mime_type == IF m.mime = <<>> THEN <<>> ELSE m.mime[1]
        r == IF AlreadyForwarded(msg_key, seen) THEN Skip(seen, "seen")
             ELSE IF text # <<>> /\ m.media = "none" THEN
                 [seen |-> IF o1 = "ok" THEN seen \cup {msg_key} ELSE seen,
                  ret |-> o1 = "ok", branch |-> "text",
                  sends |-> <<Sent("message", rewritten_text, o1)>>]
             ELSE IF m.media = "photo" THEN
                 SendMedia(msg_key, seen, rewritten_text, o1, o2, "photo")
             ELSE IF m.media = "document" THEN
                 IF IsVideo(mime_type) THEN
                     SendMedia(msg_key, seen, rewritten_text, o1, o2, "video")
                 ELSE IF IsGif(mime_type) THEN
                     SendMedia(msg_key, seen, rewritten_text, o1, o2, "gif")
                 ELSE Skip(seen, "document")
             ELSE IF m.media # "none" THEN Skip(seen, "other")
             ELSE Skip(seen, "empty")
        reached == r.branch # "seen"
    IN  [key |-> msg_key,
         text |-> IF reached THEN GetText(m) ELSE <<>>,
         rewritten |-> IF reached THEN rewritten_text ELSE <<>>,
         unavailable |-> reached /\ text # <<>> /\ ~Truthy(call_ai_bot(text, resp)),
         ai |-> IF reached /\ text # <<>> THEN <<call_ai_bot(text, resp)>> ELSE <<>>,
         media |-> IF reached THEN m.media ELSE "none",
         mime |-> IF reached THEN m.mime ELSE <<>>,
         seen |-> r.seen, ret |-> r.ret, branch |-> r.branch, sends |-> r.sends]

(* ---------------------------- the program ------------------------------ *)

VARIABLES
    SOURCE_CHANNELS, \* the configured list of source channels
    pc,              \* where the invocation stands
    run,             \* number of the invocation
    file,            \* content of SEEN_FILE
    SEEN_MESSAGES,   \* the global set of forwarded message keys
    channel,         \* index in SOURCE_CHANNELS of the loop of poll_channels
    messages,        \* ids of the fetched messages still to process, oldest first
    message,         \* the message the inner loop has taken, NoMessage between
    total_forwarded, \* the counter of poll_channels
    last,            \* the latest call of process_message and what it did
    burst,           \* ids of the latest consecutive groupable items that
                     \* arrived within the debounce window of each other
    posts,           \* the posts made for them, each the list of its items
    recorded,        \* every key added to SEEN_MESSAGES in any invocation
    fetched,         \* the calls of get_messages of this invocation, in order
    outbox,          \* the posts of this invocation that reached the target
                     \* channel, in order
    saves,           \* how each call of save_seen_messages of this invocation
                     \* ended, in order
    carried          \* the keys of the items the invocation before this one
                     \* posted, when its save succeeded

vars == <<SOURCE_CHANNELS, pc, run, file, SEEN_MESSAGES, channel, messages, message,
          total_forwarded,
          last, burst, posts, recorded, fetched, outbox, saves, carried>>

NoMessage ==
    [id |-> 0, text |-> <<>>, media |-> "none", caption |-> <<>>, mime |-> <<>>,
     near |-> FALSE]

NoCall ==
    [key |-> <<>>, text |-> <<>>, rewritten |-> <<>>, unavailable |-> FALSE,
     ai |-> <<>>, media |-> "none", mime |-> <<>>,
     ret |-> FALSE, branch |-> "none", sends |-> <<>>]

\* The state when the interpreter starts the first invocation on a host
\* where SEEN_FILE was never written.
Boot ==
    /\ pc = "import"
    /\ run = 1
    /\ file = FileMissing
    /\ SEEN_MESSAGES = {}
    /\ channel = 1
    /\ messages = <<>>
    /\ message = NoMessage
    /\ total_forwarded = 0
    /\ last = NoCall
    /\ burst = <<>>
    /\ posts = <<>>
    /\ recorded = {}
    /\ fetched = <<>>
    /\ outbox = <<>>
    /\ saves = <<>>
    /\ carried = {}

Init == SOURCE_CHANNELS \in ChannelLists /\ Boot

\* The same with a single source channel, for runs that follow each other.
InitRuns == SOURCE_CHANNELS = <<ChanA>> /\ Boot

\* What the invocation can find at SEEN_FILE: no file, a file that is not
\* JSON or cannot be read, a file save_seen_messages wrote, or JSON of
\* another shape.
FileShapes ==
    {FileMissing, FileCorrupt,
     FileOf(<<>>), FileOf(<<MsgKey(ChanA, 1)>>), FileOf(<<MsgKey(ChanA, 2), MsgKey(ChanA, 1)>>),
     FileJsonArray, FileNoKey, FileIdsNull, FileIdsNested,
     FileIdsString(<<>>), FileIdsString(<<"a", "b">>)}

\* One invocation on a host whose SEEN_FILE is any of these.
InitLoad ==
    /\ SOURCE_CHANNELS = <<ChanA>>
    /\ pc = "import"
    /\ run = 1
    /\ file \in FileShapes
    /\ SEEN_MESSAGES = {}
    /\ channel = 1
    /\ messages = <<>>
    /\ message = NoMessage
    /\ total_forwarded = 0
    /\ last = NoCall
    /\ burst = <<>>
    /\ posts = <<>>
    /\ recorded = {}
    /\ fetched = <<>>
    /\ outbox = <<>>
    /\ saves = <<>>
    /\ carried = {}

\* Module import and the start of main(): SEEN_MESSAGES = load_seen_messages(),
\* bot_client.start(), then poll_channels() sets its counter and enters the loop.
Start ==
    /\ pc = "import"
    /\ SEEN_MESSAGES' = load_seen_messages(file)
    /\ total_forwarded' = 0
    /\ channel' = 1
    /\ pc' = "channel"
    /\ UNCHANGED <<SOURCE_CHANNELS, message, run, file, messages, last, burst, posts, recorded,
                   fetched, outbox, saves, carried>>

\* bot_client.start() raises: main() ends before its try statement, nothing
\* is polled, saved or disconnected, and the entry point logs a fatal error.
StartFails ==
    /\ pc = "import"
    /\ SEEN_MESSAGES' = load_seen_messages(file)
    /\ pc' = "failed"
    /\ UNCHANGED <<SOURCE_CHANNELS, message, run, file, channel, messages, total_forwarded,
                   last, burst, posts, recorded, fetched, outbox, saves, carried>>

\* messages = await bot_client.get_messages(channel, limit=50): the channel
\* holds n messages, numbered 1..n; the newest min(n, limit) come back newest
\* first and the inner loop walks them reversed.
Fetched_NewestFirst(n) == [i \in 1..Min(n, limit) |-> n + 1 - i]

Fetched(n) == Reversed([i \in 1..Min(n, limit) |-> n + 1 - i])

GetMessages ==
    /\ pc = "channel"
    /\ channel <= Len(SOURCE_CHANNELS)
    /\ \E n \in 0..MaxItems : messages' = Fetched(n)
    /\ pc' = "message"
    /\ burst' = <<>>
    /\ posts' = <<>>
    /\ fetched' = Append(fetched, [entry |-> channel, ok |-> TRUE])
    /\ UNCHANGED <<SOURCE_CHANNELS, message, run, file, SEEN_MESSAGES, channel, total_forwarded, last,
                   recorded, outbox, saves, carried>>

\* get_messages raises and the error ends the loop over the channels.
GetMessagesFails_Break ==
    /\ pc = "channel"
    /\ channel <= Len(SOURCE_CHANNELS)
    /\ channel' = Len(SOURCE_CHANNELS) + 1
    /\ fetched' = Append(fetched, [entry |-> channel, ok |-> FALSE])
    /\ UNCHANGED <<SOURCE_CHANNELS, message, pc, run, file, SEEN_MESSAGES, messages, total_forwarded, last,
                   burst, posts, recorded, outbox, saves, carried>>

\* get_messages raises: the error is logged and the loop continues with the
\* next channel.
GetMessagesFails ==
    /\ pc = "channel"
    /\ channel <= Len(SOURCE_CHANNELS)
    /\ channel' = channel + 1
    /\ fetched' = Append(fetched, [entry |-> channel, ok |-> FALSE])
    /\ UNCHANGED <<SOURCE_CHANNELS, message, pc, run, file, SEEN_MESSAGES, messages, total_forwarded, last,
                   burst, posts, recorded, outbox, saves, carried>>

Groupable(branch) == branch \in {"photo", "video", "gif"}

\* The answers the collaborators can give while process_message handles a
\* message of shape s: resp of the rewrite endpoint, o1 of the first send, o2
\* of the fallback text post.  A call that is not made has one answer, which
\* nothing reads.
NoAnswer == [kind |-> "error", result |-> <<>>]

Answers ==
    [s \in Shapes |->
        LET m == Message(1, s, FALSE)
            dry == process_message(m, ChanA, {}, NoAnswer, "Error", "Error")
            all == {[resp |-> resp, o1 |-> o1, o2 |-> o2] :
                       resp \in IF Strip(GetText(m)) = <<>> THEN {NoAnswer} ELSE AiResponses,
                       o1 \in IF Len(dry.sends) >= 1 THEN SendOutcomes ELSE {"ok"},
                       o2 \in IF Len(dry.sends) >= 2 THEN SendOutcomes ELSE {"ok"}}
        IN  {a \in all : a.o1 = "ok" => a.o2 = "ok"}]

\* `for message in reversed(messages)` takes the next message.  What the
\* message holds is drawn here: get_messages returned it, and nothing read it
\* before.
TakeMessage ==
    /\ pc = "message"
    /\ messages # <<>>
    /\ \E s \in Shapes : \E near \in IF burst # <<>> THEN BOOLEAN ELSE {FALSE} :
           message' = Message(Head(messages), s, near)
    /\ messages' = Tail(messages)
    /\ last' = NoCall
    /\ pc' = "process"
    /\ UNCHANGED <<SOURCE_CHANNELS, run, file, SEEN_MESSAGES, channel, total_forwarded,
                   burst, posts, recorded, fetched, outbox, saves, carried>>

\* The posts the call made for the item, each with the items it carries: a
\* send carries the one item of the call.
PostsOf(res) ==
    LET ok == {i \in DOMAIN res.sends : res.sends[i].result = "ok"}
    IN  [i \in 1..Cardinality(ok) |-> <<message.id>>]

\* The sends of the call that reached the target channel, each with the
\* invocation, the entry of SOURCE_CHANNELS and the message it belongs to.
Delivered(res) ==
    LET ok == {i \in DOMAIN res.sends : res.sends[i].result = "ok"}
    IN  [i \in 1..Cardinality(ok) |-> [run |-> run, entry |-> channel, id |-> message.id]]

\* The body of the inner loop counting every call that attempted a send.
Process_CountAttempts(res) ==
    LET grows == message.near /\ burst # <<>>
    IN  /\ SEEN_MESSAGES' = res.seen
        /\ recorded' = recorded \cup (res.seen \ SEEN_MESSAGES)
        /\ total_forwarded' = IF res.sends # <<>> THEN total_forwarded + 1 ELSE total_forwarded
        /\ last' = [k \in DOMAIN NoCall |-> res[k]]
        /\ burst' = IF ~Groupable(res.branch) THEN <<>>
                    ELSE IF grows THEN Append(burst, message.id) ELSE <<message.id>>
        /\ posts' = IF ~Groupable(res.branch) THEN <<>>
                    ELSE (IF grows THEN posts ELSE <<>>) \o PostsOf(res)
        /\ outbox' = outbox \o Delivered(res)

\* The body of the inner loop: forwarded = await process_message(message,
\* channel), the count of its result and the sleep.
Process(res) ==
    LET grows == message.near /\ burst # <<>>
    IN  /\ SEEN_MESSAGES' = res.seen
        /\ recorded' = recorded \cup (res.seen \ SEEN_MESSAGES)
        /\ total_forwarded' = IF res.ret THEN total_forwarded + 1 ELSE total_forwarded
        /\ last' = [k \in DOMAIN NoCall |-> res[k]]
        /\ burst' = IF ~Groupable(res.branch) THEN <<>>
                    ELSE IF grows THEN Append(burst, message.id) ELSE <<message.id>>
        /\ posts' = IF ~Groupable(res.branch) THEN <<>>
                    ELSE (IF grows THEN posts ELSE <<>>) \o PostsOf(res)
        /\ outbox' = outbox \o Delivered(res)

Shape(m) == [text |-> m.text, media |-> m.media, caption |-> m.caption, mime |-> m.mime]

\* The inner loop with an item whose send raised ending the channel.
ProcessMessage_Abort ==
    /\ pc = "process"
    /\ \E a \in Answers[Shape(message)] :
           LET res == process_message(message, SOURCE_CHANNELS[channel], SEEN_MESSAGES,
                                      a.resp, a.o1, a.o2)
           IN  /\ Process(res)
               /\ messages' = IF res.sends # <<>> /\ ~res.ret THEN <<>> ELSE messages
    /\ message' = NoMessage
    /\ pc' = "message"
    /\ UNCHANGED <<SOURCE_CHANNELS, run, file, channel, fetched, saves, carried>>

ProcessMessage ==
    /\ pc = "process"
    /\ \E a \in Answers[Shape(message)] :
           Process(process_message(message, SOURCE_CHANNELS[channel], SEEN_MESSAGES,
                                   a.resp, a.o1, a.o2))
    /\ message' = NoMessage
    /\ pc' = "message"
    /\ UNCHANGED <<SOURCE_CHANNELS, run, file, channel, messages, fetched, saves, carried>>

\* The inner loop is exhausted: next channel.
NextChannel ==
    /\ pc = "message"
    /\ messages = <<>>
    /\ channel' = channel + 1
    /\ pc' = "channel"
    /\ UNCHANGED <<SOURCE_CHANNELS, message, run, file, SEEN_MESSAGES, messages, total_forwarded, last,
                   burst, posts, recorded, fetched, outbox, saves, carried>>

\* After the loop over the channels: save_seen_messages(SEEN_MESSAGES), and
\* poll_channels returns its counter.
Save ==
    /\ pc = "channel"
    /\ channel > Len(SOURCE_CHANNELS)
    /\ \E outcome \in SaveOutcomes :
           /\ file' = save_seen_messages(file, SEEN_MESSAGES, outcome)
           /\ saves' = Append(saves, outcome)
    /\ pc' = "returned"
    /\ UNCHANGED <<SOURCE_CHANNELS, message, run, SEEN_MESSAGES, channel, messages, total_forwarded, last,
                   burst, posts, recorded, fetched, outbox, carried>>

\* finally: bot_client.disconnect(); the process exits.
Disconnect ==
    /\ pc = "returned"
    /\ pc' = "exited"
    /\ UNCHANGED <<SOURCE_CHANNELS, message, run, file, SEEN_MESSAGES, channel, messages, total_forwarded,
                   last, burst, posts, recorded, fetched, outbox, saves, carried>>

\* The scheduler starts the next invocation: a new process, whose globals are
\* fresh and whose SEEN_FILE is what the previous one left.
NextRun ==
    /\ pc = "exited"
    /\ run < MaxRuns
    /\ run' = run + 1
    /\ pc' = "import"
    /\ SEEN_MESSAGES' = {}
    /\ channel' = 1
    /\ messages' = <<>>
    /\ message' = NoMessage
    /\ total_forwarded' = 0
    /\ last' = NoCall
    /\ burst' = <<>>
    /\ posts' = <<>>
    /\ fetched' = <<>>
    /\ outbox' = <<>>
    /\ saves' = <<>>
    /\ carried' = IF saves = <<"ok">>
                  THEN {MsgKey(SOURCE_CHANNELS[outbox[i].entry], outbox[i].id) :
                            i \in DOMAIN outbox}
                  ELSE {}
    /\ UNCHANGED <<SOURCE_CHANNELS, file, recorded>>

\* One invocation.
Next ==
    \/ Start
    \/ StartFails
    \/ GetMessages
    \/ GetMessagesFails
    \/ TakeMessage
    \/ ProcessMessage
    \/ NextChannel
    \/ Save
    \/ Disconnect

Spec == Init /\ [][Next]_vars

\* The steps of an invocation outside the inner loop.
Scheduled ==
    \/ Start
    \/ StartFails
    \/ GetMessages
    \/ GetMessagesFails
    \/ NextChannel
    \/ Save
    \/ Disconnect

\* One invocation under the event loop: run_until_complete(main()) keeps
\* running the one coroutine, and every awaited call returns or raises, so a
\* step that can be taken is taken.  The two steps of the inner loop are the
\* only ones that can be taken where they can be taken (TakeMessage when
\* the loop stands before a message, ProcessMessage when pc = "process"),
\* and each leaves that position, so their weak fairness is written as: the
\* invocation is not for ever before the same message, nor for ever inside
\* process_message.
SpecFair ==
    /\ Init
    /\ [][Next]_vars
    /\ WF_vars(Scheduled)
    /\ []<>(~(pc = "message" /\ messages # <<>>))
    /\ []<>(pc # "process")

\* One invocation, whatever SEEN_FILE holds when it starts.
SpecLoad == InitLoad /\ [][Next]_vars

\* Invocations that follow each other on the same host.
NextRuns ==
    \/ Start
    \/ StartFails
    \/ GetMessages
    \/ GetMessagesFails
    \/ TakeMessage
    \/ ProcessMessage
    \/ NextChannel
    \/ Save
    \/ Disconnect
    \/ NextRun

SpecRuns == InitRuns /\ [][NextRuns]_vars

(* ------------------------------- claims -------------------------------- *)

\* The step is a call of process_message, with what follows it in the loop.
Handling == pc = "process" /\ pc' = "message"

\* The step takes the next message of the channel.
Taking == pc = "message" /\ pc' = "process"

\* The step fetches the messages of the next channel.
Fetching == pc = "channel" /\ pc' = "message"

\* The key of the message the call of process_message receives.
CurrentKey == MsgKey(SOURCE_CHANNELS[channel], message.id)

\* C1. Idempotence: a call of process_message on an item whose key is in the
\* processed set makes no send, returns False and leaves the processed set,
\* the counter and the store file as they are.
C1_Idempotence ==
    [][(Handling /\ CurrentKey \in SEEN_MESSAGES) =>
           /\ last'.sends = <<>>
           /\ ~last'.ret
           /\ SEEN_MESSAGES' = SEEN_MESSAGES
           /\ total_forwarded' = total_forwarded
           /\ file' = file]_vars

\* A call has met a key of the processed set (the channel named twice).
C1_Witness == last.branch = "seen" /\ last.key \in SEEN_MESSAGES

\* C2. A key once recorded is never relayed again: no call of
\* process_message, in the invocation that recorded the key or in a later
\* one, makes a send for an item whose key was recorded.
C2_NeverRelayedAgain ==
    [][(Handling /\ CurrentKey \in recorded) => last'.sends = <<>>]_vars

\* C3. The processed set is flushed after each successful dispatch and at
\* shutdown: the store file holds the key of a dispatched item before the
\* next item is processed, and every recorded key when the run has ended.
C3_FlushedAfterDispatch ==
    /\ last.ret => last.key \in load_seen_messages(file)
    /\ pc = "exited" => SEEN_MESSAGES \subseteq load_seen_messages(file)

\* C4. Unsupported media drop: an item whose media is a document that is
\* neither video nor GIF is not dispatched and is recorded as processed.
C4_UnsupportedRecorded ==
    last.branch = "document" => (last.sends = <<>> /\ last.key \in SEEN_MESSAGES)

\* C5. Rate-limit recovery: a send answered with RateLimited is retried
\* exactly once, as the same post; the item is delivered if the retry
\* succeeds and failed otherwise.
C5_RateLimitRetry ==
    (last.sends # <<>> /\ last.sends[1].result = "RateLimited") =>
        /\ Len(last.sends) = 2
        /\ last.sends[2].kind = last.sends[1].kind
        /\ last.sends[2].text = last.sends[1].text
        /\ last.ret = (last.sends[2].result = "ok")

\* The branches of process_message that dispatch the item.
Dispatching(l) == l.branch \in {"text", "photo", "video", "gif"}

\* C6 as stated. Fallback on rewrite failure: when the rewrite is
\* Unavailable the item is still dispatched, with its original text.
C6_OriginalTextVerbatim ==
    (Dispatching(last) /\ last.unavailable) =>
        /\ last.sends # <<>>
        /\ \A i \in DOMAIN last.sends : last.sends[i].text = <<last.text>>

\* C6. Fallback on rewrite failure: when the rewrite is Unavailable the item
\* is still dispatched, and every text or caption dispatched for it is the
\* item's original text with leading and trailing whitespace removed.
C6_FallbackToStrippedText ==
    (Dispatching(last) /\ last.unavailable) =>
        /\ last.sends # <<>>
        /\ \A i \in DOMAIN last.sends : last.sends[i].text = <<Strip(last.text)>>

\* An item with a text was posted although the rewrite was Unavailable.
C6_Witness ==
    /\ last.unavailable
    /\ last.sends # <<>>
    /\ last.sends[Len(last.sends)].result = "ok"
    /\ Strip(last.text) # last.text

Denied(l) == \E i \in DOMAIN l.sends : l.sends[i].result = "PermissionDenied"

\* C7. PermissionDenied is fatal for the run: after a send that failed with
\* PermissionDenied no further item is processed and no further channel is
\* fetched.
C7_PermissionDeniedFatal ==
    [][Denied(last) => ~(Taking \/ Fetching)]_vars

\* C8. Degraded fallback: when the media send fails with a transport error
\* and the item has a caption, one text-only post is attempted and the item
\* is reported Failed (not forwarded) whether or not that post succeeded.
C8_DegradedIsFailed ==
    (/\ last.sends # <<>>
     /\ last.sends[1].kind = "file"
     /\ last.sends[1].result = "Error"
     /\ Truthy(last.rewritten)) =>
        /\ Len(last.sends) = 2
        /\ last.sends[2].kind = "message"
        /\ ~last.ret

\* C9. A dedup entry is recorded whenever a delivery attempt was made: after
\* a call of process_message that attempted a send, the key of the item is in
\* the processed set.
C9_AttemptRecorded ==
    last.sends # <<>> => last.key \in SEEN_MESSAGES

\* C10. Debounce correctness: three groupable items of one channel that
\* arrive within the debounce window of each other yield one outgoing batch
\* that holds the three, never separate posts.
C10_OneBatch ==
    Len(burst) = 3 => (Len(posts) <= 1 /\ (posts # <<>> => posts[1] = burst))

\* The step loads SEEN_FILE into SEEN_MESSAGES (module import).
Loading == pc = "import" /\ pc' # "import"

\* C11. Loading the state store never fails: the invocation goes on after
\* the load whatever SEEN_FILE holds; a file that is missing, unreadable,
\* not JSON, or JSON of another shape than {"message_ids": [keys]} loads as
\* the empty set, and a well-formed file loads as exactly the set of the
\* keys it lists.
C11_LoadEmptyUnlessWellFormed ==
    /\ [][Loading =>
             SEEN_MESSAGES' = IF file.kind = "ok" THEN Range(file.ids) ELSE {}]_vars
    /\ [](pc = "import" => ENABLED Start)

\* C12. The rewrite client returns only Rewritten(non-empty text) or
\* Unavailable (None): every value a call of call_ai_bot returned is None or
\* a non-empty text, whatever the endpoint answered, and an empty or
\* whitespace-only input yields None whatever the endpoint would answer.
C12_RewrittenOrUnavailable ==
    /\ \A i \in DOMAIN last.ai : last.ai[i] = <<>> \/ last.ai[i][1] # <<>>
    /\ \A t \in Texts : \A resp \in AiResponses :
           Strip(t) = <<>> => call_ai_bot(t, resp) = <<>>

\* The entries of SOURCE_CHANNELS on which get_messages was called, in order.
Visited == [i \in DOMAIN fetched |-> fetched[i].entry]

MediaSent(l) == \E i \in DOMAIN l.sends : l.sends[i].kind = "file"

\* The mime type of the item's document, "" when it has none.
MimeOf(l) == IF l.mime = <<>> THEN <<>> ELSE l.mime[1]

\* A mime type of type video: "video/<subtype>".
VideoType(mime_type) ==
    Len(mime_type) >= 6 /\ SubSeq(mime_type, 1, 6) = <<"v", "i", "d", "e", "o", "/">>

\* C14. Media admission: a media send is made only for a photo, a
\* GIF or a document whose mime type is a video type; for every other
\* document or media type no send at all is made.
C14_VideoTypeOnly ==
    LET admitted == \/ last.media = "photo"
                    \/ /\ last.media = "document"
                       /\ (MimeOf(last) = ImageGif \/ VideoType(MimeOf(last)))
    IN  /\ MediaSent(last) => admitted
        /\ (last.media # "none" /\ ~admitted) => last.sends = <<>>

\* The key of the item a post of the outbox belongs to.
KeyOf(o) == MsgKey(SOURCE_CHANNELS[o.entry], o.id)

\* The number of posts invocation r made for the item of key k.
PostsFor(k, r) ==
    Cardinality({i \in DOMAIN outbox : outbox[i].run = r /\ KeyOf(outbox[i]) = k})

\* C15. Recording implies delivery: the processed set changes only by a call
\* of process_message that adds the key of its item; the call adds the key
\* exactly when it returns True, and then its last send completed without
\* error; every key added in the invocation has exactly one successful post.
C15_RecordedImpliesDelivered ==
    /\ [][SEEN_MESSAGES' # SEEN_MESSAGES => (Handling \/ Loading)]_vars
    /\ [][Handling =>
             /\ SEEN_MESSAGES' \ SEEN_MESSAGES = IF last'.ret THEN {CurrentKey} ELSE {}
             /\ SEEN_MESSAGES \subseteq SEEN_MESSAGES'
             /\ last'.ret => /\ last'.sends # <<>>
                             /\ last'.sends[Len(last'.sends)].result = "ok"]_vars
    /\ [](\A k \in recorded : PostsFor(k, run) = 1)

\* A key was added after the text fallback of a failed media send.
C15_Witness ==
    /\ last.ret
    /\ Len(last.sends) = 2
    /\ last.key \in SEEN_MESSAGES
    /\ PostsFor(last.key, run) = 1

\* C16. Failure isolation in the poll pass: whatever a call of
\* process_message did, the loop goes on with the remaining items of the
\* channel, each of which is taken in turn; a fetch that raises moves the
\* loop to the next entry of the channel list; when the pass is over every
\* entry was fetched and save_seen_messages was called once, at the end, and
\* the file it wrote holds the processed set.
C16_FailureIsolation ==
    /\ [][Handling => (messages' = messages /\ channel' = channel)]_vars
    /\ [][(pc = "message" /\ messages # <<>>) =>
             (Taking /\ message'.id = Head(messages) /\ messages' = Tail(messages))]_vars
    /\ [][(pc = "message" /\ messages = <<>>) =>
             (pc' = "channel" /\ channel' = channel + 1)]_vars
    /\ [][(pc = "channel" /\ channel <= Len(SOURCE_CHANNELS)) =>
             /\ fetched' = Append(fetched, [entry |-> channel, ok |-> pc' = "message"])
             /\ pc' = "channel" => channel' = channel + 1]_vars
    /\ [](pc \in {"channel", "message", "process"} => saves = <<>>)
    /\ [](pc \in {"returned", "exited"} =>
              /\ Visited = [i \in 1..Len(SOURCE_CHANNELS) |-> i]
              /\ Len(saves) = 1
              /\ saves[1] = "ok" => load_seen_messages(file) = SEEN_MESSAGES)

\* After a fetch that raised, an item of the next channel failed to be sent
\* and the loop stands before the remaining items.
C16_Witness ==
    /\ pc = "message"
    /\ messages # <<>>
    /\ last.sends # <<>>
    /\ ~last.ret
    /\ fetched = <<[entry |-> 1, ok |-> FALSE], [entry |-> 2, ok |-> TRUE]>>

\* The step is the end of poll_channels: the save and the return of the count.
Returning == pc = "channel" /\ pc' = "returned"

\* C17. The forwarded count of poll_channels is the number of keys added to
\* the processed set during the pass: all along the pass, and when the
\* count is returned, it is the size of the processed set minus the set the
\* invocation loaded, also for a channel list that names a channel twice.
C17_CountIsKeysAdded ==
    /\ [](pc \in {"channel", "message", "process"} =>
              total_forwarded =
                  Cardinality(SEEN_MESSAGES \ load_seen_messages(file)))
    /\ [][Returning =>
             total_forwarded' =
                 Cardinality(SEEN_MESSAGES' \ load_seen_messages(file))]_vars

\* The pass over a list that names one channel twice has returned a count of
\* two or more, with posts made in both visits and a key skipped in the second.
C17_Witness ==
    /\ SOURCE_CHANNELS = <<ChanA, ChanA>>
    /\ pc = "returned"
    /\ total_forwarded >= 2
    /\ last.branch = "seen"
    /\ \E i, j \in DOMAIN outbox : outbox[i].entry = 1 /\ outbox[j].entry = 2

\* The entries of the channel list are fetched in configuration order and
\* the messages of a fetch are walked oldest first.
OldestFirst ==
    /\ \A i, j \in DOMAIN fetched : i < j => fetched[i].entry < fetched[j].entry
    /\ \A i, j \in DOMAIN messages : i < j => messages[i] < messages[j]
    /\ (pc = "process" /\ messages # <<>>) => message.id < messages[1]

KeysOfChanA == {MsgKey(ChanA, i) : i \in 1..MaxItems}

\* C19. Persistence round trip: save_seen_messages(S) followed by
\* load_seen_messages() yields exactly S when the write succeeds, for every
\* set of keys S and for the set each invocation saves; hence an invocation
\* whose save succeeded and the invocation that follows it post each item
\* at most once between them.
C19_RoundTrip ==
    /\ [](pc = "import" =>
              \A S \in SUBSET KeysOfChanA :
                  load_seen_messages(save_seen_messages(file, S, "ok")) = S)
    /\ [][(Returning /\ saves' = <<"ok">>) =>
             load_seen_messages(file') = SEEN_MESSAGES]_vars
    /\ [](\A k \in KeysOfChanA :
              PostsFor(k, run) + (IF k \in carried THEN 1 ELSE 0) <= 1)

\* The second invocation, started from the file the first one saved, has
\* skipped an item the first one posted and has posted another item.
C19_Witness ==
    /\ run = 2
    /\ pc = "exited"
    /\ \E k \in carried : k \in SEEN_MESSAGES /\ PostsFor(k, run) = 0
    /\ outbox # <<>>

====
